---------------------------- MODULE Spec2Model ----------------------------
(***************************************************************************)
(* World/battle engine of the POKEMON server.                              *)
(*                                                                         *)
(* Two independent worlds exist in the sources:                            *)
(*   - the Pokeworld (grid of *Pokemon, despawnTimers, TotalPokemon,       *)
(*     players) with spawnPokemon and handlePlayer                         *)
(*     (src/server.go 252-296, src/unnamed/part_000 713-870);              *)
(*   - the Player world (world [][]*Player) with addPlayer and             *)
(*     handlePlayerMovement (src/server.go 298-363).                       *)
(* Spec is the Pokeworld, SpecPlayers the Player world.  SpecBattle is the *)
(* two-player battle of src/server.go (handleConnection 454-572 and main   *)
(* 574-661), the only part main starts; SpecBattleLive is SpecBattle with  *)
(* the scheduler's fairness.                                               *)
(*                                                                         *)
(* A creature on the grid is the pointer &pw.pokedex[i]: it is modelled    *)
(* by the index i (Nil for a nil pointer), so two placements of the same   *)
(* pokedex entry are the same pointer, as in the code.                     *)
(*                                                                         *)
(* sync.Mutex is not reentrant: a goroutine that calls Lock on a mutex it  *)
(* already holds blocks for ever.  pc values name the source line a        *)
(* goroutine of handlePlayer waits at.                                     *)
(***************************************************************************)
EXTENDS Integers, Sequences, FiniteSets, TLC

\* worldSizeX, worldSizeY (1000 in the source), scaled to a 2 x 2 grid.
worldSizeX == 2
worldSizeY == 2
\* The literal of the loop guard pw.TotalPokemon < 50, scaled below the
\* number of cells of the scaled grid.
SpawnCap == 2
\* numPokemon of spawnPokemonLoop's call pw.spawnPokemon(50), scaled.
numPokemon == 2
\* maxPokemonPerPlayer.
maxPokemonPerPlayer == 200
\* len(pw.pokedex) (200 entries fetched), scaled.
NumPokedex == 2
\* Connections served by handlePlayer.
NumClients == 2
\* Creatures each player drafts: the literal 3 of handleConnection's loop.
TeamSize == 3
\* Bound on the number of effective despawns (TotalPokemon only decreases).
MaxDespawns == 1
\* Bound on the number of addPlayer calls.
MaxPlayers == 3

Nil == 0
Pokedex == 1..NumPokedex
Cells == (0..(worldSizeX - 1)) \X (0..(worldSizeY - 1))
Clients == 1..NumClients
\* rand.Intn(100) + 1 ranges over 1..100; one value other than the pokedex's
\* initial Level 1 is drawn here.
Levels == {100}
Directions == {"up", "down", "left", "right"}
\* Lines read from a connection: the four directions, the auto command in
\* both shapes and an unrecognized token.
Inputs == Directions \cup {"auto", "auto 5", "jump"}

VARIABLES
    grid,           \* pw.grid: cell -> pokedex pointer or Nil
    despawnTimers,  \* pw.despawnTimers: pokedex pointer -> timer or Nil
    timers,         \* time.AfterFunc timers not yet fired: the closure's x, y, pokemon
    TotalPokemon,   \* pw.TotalPokemon
    Level,          \* pw.pokedex[i].Level (EV is written the same way, line 278)
    players,        \* keys of pw.players
    pwLock,         \* holder of pw's mutex (Nil: free)
    clientLock,     \* holder of each client's mutex (Nil: free)
    pc,             \* where each handlePlayer goroutine is
    X, Y,           \* client.X, client.Y
    team,           \* client.team
    AutoMode,       \* client.AutoMode
    world,          \* world [][]*Player: cell -> player ID or Nil
    playerID,       \* the global playerID counter
    PX, PY,         \* Player.X, Player.Y, by player ID
    moved,          \* history: the latest handlePlayerMovement call
    skipped,        \* history: attempts of the latest spawnPokemon call that found their cell occupied
    pokedex,        \* main's pokedex []Pokemon: the fields a battle reads, but HP
    HP,             \* pokedex[i].HP
    isActive,       \* client.isActive
    clients,        \* keys of main's clients map
    done,           \* number of values in the channel done (capacity 2)
    elected,        \* main is past its two receives and the election
    fatal,          \* the runtime stopped the process (concurrent map writes)
    hit,            \* history: the latest attack of handleConnection's turn loop
    dropped,        \* clients in the turn loop whose reads fail, the connection having dropped
    rejected        \* history: the player whose latest line was refused, and at which prompt

vars == <<grid, despawnTimers, timers, TotalPokemon, Level, players, pwLock,
          clientLock, pc, X, Y, team, AutoMode, world, playerID, PX, PY, moved,
          skipped,
          pokedex, HP, isActive, clients, done, elected, fatal, hit,
          dropped, rejected>>

worldVars == <<grid, despawnTimers, timers, TotalPokemon, Level>>
clientVars == <<players, pwLock, clientLock, pc, X, Y, team, AutoMode>>
playerVars == <<world, playerID, PX, PY, moved>>
battleVars == <<pokedex, HP, isActive, clients, done, elected, fatal, hit,
                dropped, rejected>>

\* No call of handlePlayerMovement yet.
NoMove == [id |-> Nil, direction |-> "", fromX |-> 0, fromY |-> 0, found |-> Nil]

\* The part of the state spawnPokemon and the despawn callback work on.
World == [grid |-> grid, despawnTimers |-> despawnTimers, timers |-> timers,
          TotalPokemon |-> TotalPokemon, Level |-> Level]

\* The timer object created by time.AfterFunc for a placement: it is
\* identified by what its closure captured.
Timer(x, y, pokemon) == [x |-> x, y |-> y, pokemon |-> pokemon]

NoTimer == [x |-> -1, y |-> -1, pokemon |-> Nil]

\* One random draw of a loop iteration of spawnPokemon.
Picks == [x : 0..(worldSizeX - 1), y : 0..(worldSizeY - 1),
          pokemonIndex : Pokedex, level : Levels]

\* Body of one iteration of spawnPokemon's loop.
SpawnIterNoCheck(w, pick) ==
    [w EXCEPT !.grid[<<pick.x, pick.y>>] = pick.pokemonIndex,
              !.Level[pick.pokemonIndex] = pick.level,
              !.timers = @ \cup {Timer(pick.x, pick.y, pick.pokemonIndex)},
              !.despawnTimers[pick.pokemonIndex] =
                  Timer(pick.x, pick.y, pick.pokemonIndex)]

SpawnIter(w, pick) ==
    IF w.grid[<<pick.x, pick.y>>] = Nil
    THEN [w EXCEPT !.grid[<<pick.x, pick.y>>] = pick.pokemonIndex,
                   !.Level[pick.pokemonIndex] = pick.level,
                   !.timers = @ \cup {Timer(pick.x, pick.y, pick.pokemonIndex)},
                   !.despawnTimers[pick.pokemonIndex] =
                       Timer(pick.x, pick.y, pick.pokemonIndex)]
    ELSE w

\* The loop of spawnPokemon from iteration i on, with the draws in picks.
RECURSIVE SpawnLoop(_, _, _)
SpawnLoop(w, picks, i) ==
    IF i <= Len(picks) /\ w.TotalPokemon < SpawnCap
    THEN SpawnLoop(SpawnIter(w, picks[i]), picks, i + 1)
    ELSE w

\* The attempts of a call that found their cell occupied.
RECURSIVE Skipped(_, _, _)
Skipped(w, picks, i) ==
    IF i <= Len(picks) /\ w.TotalPokemon < SpawnCap
    THEN (IF w.grid[<<picks[i].x, picks[i].y>>] # Nil THEN {i} ELSE {})
             \cup Skipped(SpawnIter(w, picks[i]), picks, i + 1)
    ELSE {}

\* The callback of a despawn timer.
DespawnCallback(w, t) ==
    IF w.grid[<<t.x, t.y>>] = t.pokemon
    THEN [w EXCEPT !.grid[<<t.x, t.y>>] = Nil,
                   !.despawnTimers[t.pokemon] = NoTimer,
                   !.TotalPokemon = @ - 1,
                   !.timers = @ \ {t}]
    ELSE [w EXCEPT !.timers = @ \ {t}]

SetWorld(w) ==
    /\ grid' = w.grid
    /\ despawnTimers' = w.despawnTimers
    /\ timers' = w.timers
    /\ TotalPokemon' = w.TotalPokemon
    /\ Level' = w.Level

(***************************************************************************)
(* The battle's data and pure functions (src/server.go 96-169, 415-451).   *)
(* A float64 multiplier is held in halves: 0 is 0.0, 1 is 0.5, 2 is 1.0    *)
(* and 4 is 2.0, so SpecialAttack * m - SpecialDefense is held in halves   *)
(* too and int() is the truncation of a number of halves towards zero.     *)
(***************************************************************************)

typeChart ==
    [Normal   |-> [Rock |-> 1, Ghost |-> 0, Steel |-> 1],
     Fire     |-> [Fire |-> 1, Water |-> 1, Grass |-> 4, Ice |-> 4,
                   Bug |-> 4, Rock |-> 1, Dragon |-> 1, Steel |-> 4],
     Water    |-> [Fire |-> 4, Water |-> 1, Grass |-> 1, Ground |-> 4,
                   Rock |-> 4, Dragon |-> 1],
     Electric |-> [Water |-> 4, Electric |-> 1, Grass |-> 1, Ground |-> 0,
                   Flying |-> 4, Dragon |-> 1],
     Grass    |-> [Fire |-> 1, Water |-> 4, Grass |-> 1, Poison |-> 1,
                   Ground |-> 4, Flying |-> 1, Bug |-> 1, Rock |-> 4,
                   Dragon |-> 1, Steel |-> 1],
     Ice      |-> [Fire |-> 1, Water |-> 1, Grass |-> 4, Ice |-> 1,
                   Ground |-> 4, Flying |-> 4, Dragon |-> 4, Steel |-> 1],
     Fighting |-> [Normal |-> 4, Ice |-> 4, Poison |-> 1, Flying |-> 1,
                   Psychic |-> 1, Bug |-> 1, Rock |-> 4, Ghost |-> 0,
                   Dark |-> 4, Steel |-> 4, Fairy |-> 1],
     Poison   |-> [Grass |-> 4, Poison |-> 1, Ground |-> 1, Rock |-> 1,
                   Ghost |-> 1, Steel |-> 0, Fairy |-> 4],
     Ground   |-> [Fire |-> 4, Electric |-> 4, Grass |-> 1, Poison |-> 4,
                   Flying |-> 0, Bug |-> 1, Rock |-> 4, Steel |-> 4],
     Flying   |-> [Electric |-> 1, Grass |-> 4, Fighting |-> 4, Bug |-> 4,
                   Rock |-> 1, Steel |-> 1],
     Psychic  |-> [Fighting |-> 4, Poison |-> 4, Psychic |-> 1, Dark |-> 0,
                   Steel |-> 1],
     Bug      |-> [Fire |-> 1, Grass |-> 4, Fighting |-> 1, Poison |-> 1,
                   Flying |-> 1, Psychic |-> 4, Ghost |-> 1, Dark |-> 4,
                   Steel |-> 1, Fairy |-> 1],
     Rock     |-> [Fire |-> 4, Ice |-> 4, Fighting |-> 1, Ground |-> 1,
                   Flying |-> 4, Bug |-> 4, Steel |-> 1],
     Ghost    |-> [Normal |-> 0, Psychic |-> 4, Ghost |-> 4, Dark |-> 1],
     Dragon   |-> [Dragon |-> 4, Steel |-> 1, Fairy |-> 0],
     Dark     |-> [Fighting |-> 1, Psychic |-> 4, Ghost |-> 4, Dark |-> 1,
                   Fairy |-> 1],
     Steel    |-> [Fire |-> 1, Water |-> 1, Electric |-> 1, Ice |-> 4,
                   Rock |-> 4, Steel |-> 1, Fairy |-> 4],
     Fairy    |-> [Fire |-> 1, Poison |-> 1, Fighting |-> 4, Dragon |-> 4,
                   Dark |-> 4, Steel |-> 1]]

\* The 18 type names of the chart and a name the chart does not know.
TypeNames == DOMAIN typeChart \cup {"Shadow"}

\* Pokedex entries a battle is run with: the Type, HP and stats fields of
\* a Pokemon as decoded from pokedex.json.  Between them they give an
\* Attack of 60 against a Defense of 40 with HP 20, Speeds 50 and 80, a
\* defender of two types, an attacking type without an entry for the
\* defending one, an odd SpecialAttack, and hits larger than the HP left.
Species ==
    {[Type |-> <<"Fire">>, HP |-> 20, Attack |-> 60, Defense |-> 40,
      Speed |-> 50, SpecialAttack |-> 15, SpecialDefense |-> 5],
     [Type |-> <<"Water">>, HP |-> 20, Attack |-> 30, Defense |-> 40,
      Speed |-> 80, SpecialAttack |-> 10, SpecialDefense |-> 5],
     [Type |-> <<"Water", "Grass">>, HP |-> 15, Attack |-> 60, Defense |-> 70,
      Speed |-> 50, SpecialAttack |-> 5, SpecialDefense |-> 25],
     [Type |-> <<"Normal">>, HP |-> 45, Attack |-> 55, Defense |-> 40,
      Speed |-> 80, SpecialAttack |-> 20, SpecialDefense |-> 10]}

\* calculateNormalDamage without its floor.
NormalDamageNoFloor(attacker, defender) == attacker.Attack - defender.Defense

\* calculateNormalDamage.  Its callers pass team[0] of a non-empty team,
\* never nil.
calculateNormalDamage(attacker, defender) ==
    LET damage == attacker.Attack - defender.Defense
    IN  IF damage < 0 THEN 0 ELSE damage

\* calculateTypeEffectiveness with a default of 0.0.
TypeEffectivenessDefaultZero(attackerType, defenderType) ==
    IF attackerType \in DOMAIN typeChart
    THEN IF defenderType \in DOMAIN typeChart[attackerType]
         THEN typeChart[attackerType][defenderType]
         ELSE 0
    ELSE 0

\* calculateTypeEffectiveness, in halves.
calculateTypeEffectiveness(attackerType, defenderType) ==
    IF attackerType \in DOMAIN typeChart
    THEN IF defenderType \in DOMAIN typeChart[attackerType]
         THEN typeChart[attackerType][defenderType]
         ELSE 2
    ELSE 2

\* The value of maxMultiplier after the two loops of calculateSpecialDamage:
\* it starts at 1.0 and is replaced by every greater multiplier met.
maxMultiplier(attacker, defender) ==
    LET seen == {2} \cup
                {calculateTypeEffectiveness(attacker.Type[i], defender.Type[j]) :
                    i \in DOMAIN attacker.Type, j \in DOMAIN defender.Type}
    IN  CHOOSE m \in seen : \A n \in seen : n <= m

\* int(f) of a float64 f held as h halves: truncation towards zero.
ToInt(h) == IF h >= 0 THEN h \div 2 ELSE -((-h) \div 2)

\* calculateSpecialDamage.
calculateSpecialDamage(attacker, defender) ==
    LET damage == ToInt(attacker.SpecialAttack * maxMultiplier(attacker, defender)
                        - 2 * defender.SpecialDefense)
    IN  IF damage < 0 THEN 0 ELSE damage

\* The pokedex entry whose fields stand in the pokedex variable together
\* with HP.
Entry(k) == [pokedex[k] EXCEPT !.HP = HP[k]]

\* No attack yet.
NoHit == [by |-> Nil, attacker |-> Nil, defender |-> Nil, choice |-> 0,
          damage |-> 0, hpBefore |-> 0, fainted |-> FALSE]

\* No line refused, or none since the latest line accepted.
NoReject == [by |-> Nil, prompt |-> ""]

\* The battle before main accepts a connection: no goroutine of
\* handleConnection started, the clients map empty.
InitBattleState ==
    /\ HP = [k \in Pokedex |-> pokedex[k].HP]
    /\ isActive = [p \in Clients |-> FALSE]
    /\ clients = {}
    /\ done = 0
    /\ elected = FALSE
    /\ fatal = FALSE
    /\ hit = NoHit
    /\ dropped = {}
    /\ rejected = NoReject

\* The Pokeworld as main's composite literal and loop build it (an empty
\* grid, empty maps, TotalPokemon 0), no connection accepted, and the
\* Player world with no player.  Neither world reads a battle field of a
\* pokedex entry: one pokedex stands for all.
InitWorlds ==
    /\ grid = [c \in Cells |-> Nil]
    /\ despawnTimers = [k \in Pokedex |-> NoTimer]
    /\ timers = {}
    /\ TotalPokemon = 0
    /\ Level = [k \in Pokedex |-> 1]
    /\ players = {}
    /\ pwLock = Nil
    /\ clientLock = [p \in Clients |-> Nil]
    /\ pc = [p \in Clients |-> "idle"]
    /\ X = [p \in Clients |-> 0]
    /\ Y = [p \in Clients |-> 0]
    /\ team = [p \in Clients |-> <<>>]
    /\ AutoMode = [p \in Clients |-> FALSE]
    /\ world = [c \in Cells |-> Nil]
    /\ playerID = 0
    /\ PX = [i \in 1..MaxPlayers |-> 0]
    /\ PY = [i \in 1..MaxPlayers |-> 0]
    /\ moved = NoMove
    /\ skipped = 0

Init ==
    /\ InitWorlds
    /\ pokedex \in [Pokedex -> {s \in Species : s.Type = <<"Normal">>}]
    /\ InitBattleState

\* spawnPokemonLoop: one call pw.spawnPokemon(numPokemon), under pw's mutex.
spawnPokemon ==
    /\ pwLock = Nil
    /\ \E picks \in [1..numPokemon -> Picks] :
          /\ SetWorld(SpawnLoop(World, picks, 1))
          /\ skipped' = Cardinality(Skipped(World, picks, 1))
    /\ UNCHANGED <<clientVars, playerVars, battleVars>>

\* A despawn timer fires: its callback runs under pw's mutex.
Despawn ==
    /\ pwLock = Nil
    /\ TotalPokemon > -MaxDespawns
    /\ \E t \in timers :
          /\ SetWorld(DespawnCallback(World, t))
          /\ UNCHANGED skipped
    /\ UNCHANGED <<clientVars, playerVars, battleVars>>

\* handlePlayer up to its first read: the client gets a random position
\* and is registered in pw.players under pw's mutex (lines 756-767).  When
\* the mutex is held the goroutine waits at line 765.
Connect(p) ==
    /\ pc[p] = "idle"
    /\ \E x \in 0..(worldSizeX - 1), y \in 0..(worldSizeY - 1) :
          /\ X' = [X EXCEPT ![p] = x]
          /\ Y' = [Y EXCEPT ![p] = y]
    /\ \/ /\ pwLock = Nil
          /\ players' = players \cup {p}
          /\ pc' = [pc EXCEPT ![p] = "L772"]
       \/ /\ pwLock # Nil
          /\ players' = players
          /\ pc' = [pc EXCEPT ![p] = "L765"]
    /\ UNCHANGED skipped
    /\ UNCHANGED <<worldVars, playerVars, battleVars, pwLock, clientLock, team,
                   AutoMode>>

\* The case "left" without its test of the edge.
MoveXNoClamp(x, input) ==
    CASE input = "left"  -> x - 1
      [] input = "right" -> IF x < worldSizeX - 1 THEN x + 1 ELSE x
      [] OTHER -> x

\* The switch of handlePlayer on the whole input line (lines 782-810).
\* "auto" alone has no second word, and "auto <n>" matches no case, so
\* neither changes AutoMode; the position is clamped at the edges.
MoveX(x, input) ==
    CASE input = "left"  -> IF x > 0 THEN x - 1 ELSE x
      [] input = "right" -> IF x < worldSizeX - 1 THEN x + 1 ELSE x
      [] OTHER -> x

MoveY(y, input) ==
    CASE input = "up"   -> IF y > 0 THEN y - 1 ELSE y
      [] input = "down" -> IF y < worldSizeY - 1 THEN y + 1 ELSE y
      [] OTHER -> y

\* strings.Split(input, " ") of a line.
Parts(input) == IF input = "auto 5" THEN <<"auto", "5">> ELSE <<input>>

\* strconv.Atoi of the second word of a line that has one.
Duration(input) == IF Parts(input)[2] = "5" THEN 5 ELSE 0

\* client.AutoMode after the switch (lines 799-809).  The case "auto" is
\* compared with the whole line, so in it the line has one word only.
AutoModeAfter(autoMode, input) ==
    IF input = "auto"
    THEN IF Len(Parts(input)) > 1
         THEN IF Duration(input) > 0 THEN ~autoMode ELSE autoMode
         ELSE autoMode
    ELSE autoMode

\* One line read by handlePlayer (lines 772-813).  client.Lock() at 779
\* succeeds; pw.Lock() at 780 succeeds when pw's mutex is free, and then
\* the switch moves the client and client.Lock() at 813 is called on the
\* mutex taken at 779: the goroutine waits there, holding both mutexes.
\* When pw's mutex is held the goroutine waits at 780 holding its own.
Command(p, input) ==
    /\ pc[p] = "L772"
    /\ clientLock[p] = Nil
    /\ clientLock' = [clientLock EXCEPT ![p] = p]
    /\ \/ /\ pwLock = Nil
          /\ pwLock' = p
          /\ X' = [X EXCEPT ![p] = MoveX(X[p], input)]
          /\ Y' = [Y EXCEPT ![p] = MoveY(Y[p], input)]
          /\ AutoMode' = [AutoMode EXCEPT ![p] = AutoModeAfter(@, input)]
          /\ pc' = [pc EXCEPT ![p] = "L813"]
       \/ /\ pwLock # Nil
          /\ UNCHANGED <<pwLock, X, Y, AutoMode>>
          /\ pc' = [pc EXCEPT ![p] = "L780"]
    /\ UNCHANGED skipped
    /\ UNCHANGED <<worldVars, playerVars, battleVars, players, team>>

\* ReadString fails (the connection dropped): handlePlayer returns and the
\* deferred conn.Close() runs; pw.players keeps the entry (lines 772-776).
Disconnect(p) ==
    /\ pc[p] = "L772"
    /\ pc' = [pc EXCEPT ![p] = "closed"]
    /\ UNCHANGED skipped
    /\ UNCHANGED <<worldVars, playerVars, battleVars, players, pwLock, clientLock,
                   X, Y, team, AutoMode>>

Next ==
    \/ spawnPokemon
    \/ Despawn
    \/ \E p \in Clients : Connect(p)
    \/ \E p \in Clients, input \in Inputs : Command(p, input)
    \/ \E p \in Clients : Disconnect(p)

Spec == Init /\ [][Next]_vars

(***************************************************************************)
(* The Player world of src/server.go.                                      *)
(***************************************************************************)

\* len(world): handlePlayerMovement uses it for both coordinates.
worldSize == worldSizeX

\* len(player.Pokemons).  addPlayer makes the map empty and nothing inserts
\* into it: handleEncounter only copies the Pokemons of a player found on
\* the grid, and is only called for one whose map is not empty.
LenPokemons(i) == 0

\* addPlayer(x, y): the next ID, appended to players and put on the grid,
\* whatever the cell held.
addPlayer(x, y) ==
    /\ playerID < MaxPlayers
    /\ playerID' = playerID + 1
    /\ PX' = [PX EXCEPT ![playerID + 1] = x]
    /\ PY' = [PY EXCEPT ![playerID + 1] = y]
    /\ world' = [world EXCEPT ![<<x, y>>] = playerID + 1]
    /\ UNCHANGED <<worldVars, clientVars, battleVars, moved, skipped>>

\* The switch of handlePlayerMovement (lines 332-343).
NewX(x, direction) ==
    CASE direction = "left"  -> (x - 1 + worldSize) % worldSize
      [] direction = "right" -> (x + 1) % worldSize
      [] OTHER -> x

NewY(y, direction) ==
    CASE direction = "up"   -> (y - 1 + worldSize) % worldSize
      [] direction = "down" -> (y + 1) % worldSize
      [] OTHER -> y

\* The test of line 347 on the destination cell.
Occupied(x, y) == world[<<x, y>>] # Nil /\ LenPokemons(world[<<x, y>>]) = 0

\* handlePlayerMovement(player, direction), lines 323-363, under
\* player.mutex and (from line 346) worldMutex.  An unknown direction
\* returns at once.  The encounter test of line 360 reads the cell the
\* player was just put on, whose Pokemons map is empty: handleEncounter is
\* not called.  moved records the call: who, the direction, the position
\* before it and what the destination cell held.
handlePlayerMovement(i, direction) ==
    /\ i \in 1..playerID
    /\ LET nx == NewX(PX[i], direction)
           ny == NewY(PY[i], direction)
       IN  /\ moved' = [id |-> i, direction |-> direction, fromX |-> PX[i],
                        fromY |-> PY[i], found |-> world[<<nx, ny>>]]
           /\ IF direction \notin Directions \/ Occupied(nx, ny)
              THEN UNCHANGED <<world, PX, PY>>
              ELSE /\ PX' = [PX EXCEPT ![i] = nx]
                   /\ PY' = [PY EXCEPT ![i] = ny]
                   /\ world' = [world EXCEPT ![<<PX[i], PY[i]>>] = Nil,
                                             ![<<nx, ny>>] = i]
    /\ UNCHANGED <<playerID, worldVars, clientVars, battleVars, skipped>>

NextPlayers ==
    \/ \E x \in 0..(worldSizeX - 1), y \in 0..(worldSizeY - 1) : addPlayer(x, y)
    \/ \E i \in 1..MaxPlayers, direction \in Inputs : handlePlayerMovement(i, direction)

SpecPlayers == Init /\ [][NextPlayers]_vars

(***************************************************************************)
(* The battle of src/server.go: main and two goroutines of                 *)
(* handleConnection, client 1 on player1Conn and client 2 on player2Conn.  *)
(* pc values of a goroutine: "idle" (not started), "L459" (in the write    *)
(* clients[conn] = client), "draft" (reading a team choice), "loop" (in    *)
(* the turn loop) and "returned".  The else branch of the turn loop, a     *)
(* message and a sleep, changes nothing and is not an action.              *)
(***************************************************************************)

\* go handleConnection(...): the goroutine runs up to its write of the
\* clients map, which no mutex guards.
GoHandleConnection(p) ==
    /\ ~fatal
    /\ pc[p] = "idle"
    /\ pc' = [pc EXCEPT ![p] = "L459"]
    /\ UNCHANGED <<worldVars, playerVars, players, pwLock, clientLock, AutoMode,
                   X, Y, team, skipped, pokedex, HP, isActive, clients, done, elected, fatal, hit,
                   dropped, rejected>>

\* clients[conn] = client (line 459).  While the other goroutine is inside
\* its own write of the same map the two writes race: the runtime may stop
\* the process (concurrent map writes), the entry may be stored, or it may
\* be lost.
MapWrite(p) ==
    /\ ~fatal
    /\ pc[p] = "L459"
    /\ \/ /\ clients' = clients \cup {p}
          /\ pc' = [pc EXCEPT ![p] = "draft"]
          /\ UNCHANGED fatal
       \/ /\ \E q \in Clients \ {p} : pc[q] = "L459"
          /\ \/ /\ fatal' = TRUE
                /\ UNCHANGED <<clients, pc>>
             \/ /\ pc' = [pc EXCEPT ![p] = "draft"]
                /\ UNCHANGED <<clients, fatal>>
    /\ UNCHANGED <<worldVars, playerVars, players, pwLock, clientLock, AutoMode,
                   X, Y, team, skipped, pokedex, HP, isActive, done, elected, hit,
                   dropped, rejected>>

\* The test of line 478 without its upper limit.
InvalidChoiceNoUpper(choice) == choice < 1

\* The test of line 478 on the number read; a line that is no number (err
\* of Atoi not nil) is the choice 0.
InvalidChoice(choice) == choice < 1 \/ choice > NumPokedex

\* The draft loop left one pick early.
DraftOverEarly(picks) == picks >= TeamSize - 1

\* The loop condition i < 3 of line 467 failing: i counts the valid picks,
\* every one of them appended to the team.
DraftOver(picks) == picks = TeamSize

\* One line read by the draft loop (lines 467-489).  choice is the number
\* read; 0 stands for every line that is no number.  An invalid choice is
\* answered with "Invalid choice. Try again." and i-- undoes the loop's
\* i++.  A valid choice appends the pointer &pokedex[choice-1]; the third
\* one ends the loop and sends on done, whose buffer holds both sends.
DraftPick(p, choice) ==
    /\ ~fatal
    /\ pc[p] = "draft"
    /\ IF InvalidChoice(choice)
       THEN /\ rejected' = [by |-> p, prompt |-> "draft"]
            /\ UNCHANGED <<team, done, pc>>
       ELSE /\ rejected' = NoReject
            /\ team' = [team EXCEPT ![p] = Append(@, choice)]
            /\ IF DraftOver(Len(team[p]) + 1)
               THEN /\ done' = done + 1
                    /\ pc' = [pc EXCEPT ![p] = "loop"]
               ELSE UNCHANGED <<done, pc>>
    /\ UNCHANGED <<worldVars, playerVars, players, pwLock, clientLock, AutoMode,
                   X, Y, skipped, pokedex, HP, isActive, clients, elected, fatal, hit,
                   dropped>>

\* ReadString fails in the draft loop: handleConnection returns without
\* sending on done (lines 470-473).
DraftReadError(p) ==
    /\ ~fatal
    /\ pc[p] = "draft"
    /\ pc' = [pc EXCEPT ![p] = "returned"]
    /\ UNCHANGED <<worldVars, playerVars, players, pwLock, clientLock, AutoMode,
                   X, Y, team, skipped, pokedex, HP, isActive, clients, done, elected, fatal, hit,
                   dropped, rejected>>

\* The election with the faster player taken for the slower.
FirstTurnSlower(player1Speed, player2Speed) ==
    IF player1Speed > player2Speed THEN {2}
    ELSE IF player2Speed > player1Speed THEN {1}
    ELSE {1, 2}

\* The players main may make active (lines 639-658): rand.Intn(2) decides
\* on equal speeds.
FirstTurn(player1Speed, player2Speed) ==
    IF player1Speed > player2Speed THEN {1}
    ELSE IF player2Speed > player1Speed THEN {2}
    ELSE {1, 2}

\* main after its two receives from done (lines 629-658).  A client whose
\* entry the racing map writes lost is a nil map value: reading its team
\* panics.
Election ==
    /\ ~fatal
    /\ done = NumClients
    /\ ~elected
    /\ elected' = TRUE
    /\ IF clients # Clients
       THEN fatal' = TRUE /\ UNCHANGED isActive
       ELSE /\ \E first \in FirstTurn(pokedex[team[1][1]].Speed,
                                     pokedex[team[2][1]].Speed) :
                  isActive' = [isActive EXCEPT ![first] = TRUE]
            /\ UNCHANGED fatal
    /\ UNCHANGED <<worldVars, playerVars, players, pwLock, clientLock, AutoMode,
                   pc, X, Y, team, skipped, pokedex, HP, clients, done, hit, dropped,
                   rejected>>

\* The removal with the last creature taken for the first.
RemoveLast(t) == SubSeq(t, 1, Len(t) - 1)

\* append(team[:0], team[1:]...) (line 546).
RemoveLead(t) == SubSeq(t, 2, Len(t))

\* The test of line 548 always failing.
ResolvesNever(hp, rest) == FALSE

\* The tests of lines 540 and 548 that lead to the break of line 552.
Resolves(hp, rest) == hp <= 0 /\ Len(rest) = 0

\* The turn left with the attacker.
KeepTurn(active, p, opponentClient) == active

\* The turn given to the opponent and not taken from the attacker.
SwitchTurnsNoRelease(active, p, opponentClient) ==
    [active EXCEPT ![opponentClient] = TRUE]

\* Switch Turns (lines 557-558).
SwitchTurns(active, p, opponentClient) ==
    [active EXCEPT ![p] = FALSE, ![opponentClient] = TRUE]

\* One pass of the turn loop through its first branch (lines 493-559), for
\* the line read as attackChoice; 0 and 3 stand for every line that is not
\* 1 or 2.  On a dropped connection ReadString returns at once with an
\* error the code ignores (line 502) and an empty line, which Atoi refuses.
\* The winner leaves the loop and returns (lines 552, 567-572).
Turn(p, attackChoice) ==
    /\ ~fatal
    /\ pc[p] = "loop"
    /\ isActive[p]
    /\ Len(team[p]) > 0
    /\ p \in dropped => attackChoice = 0
    /\ IF attackChoice < 1 \/ attackChoice > 2
       THEN /\ rejected' = [by |-> p, prompt |-> "attack"]
            /\ UNCHANGED <<team, HP, isActive, pc, hit>>
       ELSE IF \A q \in clients \ {p} : Len(team[q]) = 0
       THEN UNCHANGED <<team, HP, isActive, pc, hit, rejected>>
       ELSE LET opponentClient == CHOOSE q \in clients \ {p} : TRUE
                attacker == team[p][1]
                defender == team[opponentClient][1]
                damage == IF attackChoice = 1
                          THEN calculateNormalDamage(Entry(attacker), Entry(defender))
                          ELSE calculateSpecialDamage(Entry(attacker), Entry(defender))
                hp == HP[defender] - damage
                rest == IF hp <= 0 THEN RemoveLead(team[opponentClient])
                                   ELSE team[opponentClient]
            IN  /\ rejected' = NoReject
                /\ HP' = [HP EXCEPT ![defender] = hp]
                /\ team' = [team EXCEPT ![opponentClient] = rest]
                /\ hit' = [by |-> p, attacker |-> attacker, defender |-> defender,
                           choice |-> attackChoice, damage |-> damage,
                           hpBefore |-> HP[defender], fainted |-> hp <= 0]
                /\ IF Resolves(hp, rest)
                   THEN /\ pc' = [pc EXCEPT ![p] = "returned"]
                        /\ UNCHANGED isActive
                   ELSE /\ isActive' = SwitchTurns(isActive, p, opponentClient)
                        /\ UNCHANGED pc
    /\ UNCHANGED <<worldVars, playerVars, players, pwLock, clientLock, AutoMode,
                   X, Y, skipped, pokedex, clients, done, elected, fatal, dropped>>

\* The connection of the client waiting in the ReadString of line 502
\* drops: this read and every later one fail.  (In the draft loop a drop
\* is DraftReadError; the waiting branch of the turn loop reads nothing, so
\* there a drop shows when the client has the turn.)
ConnectionDrops(p) ==
    /\ ~fatal
    /\ pc[p] = "loop"
    /\ isActive[p]
    /\ Len(team[p]) > 0
    /\ p \notin dropped
    /\ dropped' = dropped \cup {p}
    /\ UNCHANGED <<worldVars, playerVars, players, pwLock, clientLock, AutoMode,
                   pc, X, Y, team, skipped, pokedex, HP, isActive, clients, done, elected,
                   fatal, hit, rejected>>

\* The battle with a pokedex of any entries of Species.
InitBattle ==
    /\ InitWorlds
    /\ pokedex \in [Pokedex -> Species]
    /\ InitBattleState

NextBattle ==
    \/ \E p \in Clients : GoHandleConnection(p)
    \/ \E p \in Clients : MapWrite(p)
    \/ \E p \in Clients, choice \in 0..(NumPokedex + 1) : DraftPick(p, choice)
    \/ \E p \in Clients : DraftReadError(p)
    \/ Election
    \/ \E p \in Clients, attackChoice \in 0..3 : Turn(p, attackChoice)
    \/ \E p \in Clients : ConnectionDrops(p)

SpecBattle == InitBattle /\ [][NextBattle]_vars

\* What the scheduler guarantees: a goroutine that can run does run.  main
\* gets to its election, a goroutine gets through its map write, and the
\* goroutine of a turn owner whose reads fail goes on round its loop.  A
\* player with a live connection need not send a line.
FairBattle ==
    /\ WF_vars(Election)
    /\ \A p \in Clients : WF_vars(MapWrite(p))
    /\ \A p \in Clients : WF_vars(p \in dropped /\ Turn(p, 0))

SpecBattleLive == InitBattle /\ [][NextBattle]_vars /\ FairBattle

(***************************************************************************)
(* Claims.                                                                 *)
(***************************************************************************)

OccupiedCells == {c \in Cells : grid[c] # Nil}

\* A command of client p that leaves it, with spare team capacity, on a
\* cell holding a creature.
EndsOnCreature(p, input) ==
    /\ Command(p, input)
    /\ pc'[p] = "L813"
    /\ grid[<<X'[p], Y'[p]>>] # Nil
    /\ Len(team[p]) < maxPokemonPerPlayer

\* C1 (as claimed): a capture cancels the creature's despawn timer and
\* decrements the live-creature counter exactly once: after a command that
\* ends, with spare capacity, on a cell holding a creature, no timer is
\* pending for that cell and TotalPokemon is one less.
C1_CaptureCancelsTimer ==
    [][\A p \in Clients, input \in Inputs :
          EndsOnCreature(p, input) =>
              /\ \A t \in timers' : <<t.x, t.y>> # <<X'[p], Y'[p]>>
              /\ TotalPokemon' = TotalPokemon - 1]_vars

\* C3 (as claimed): the number of creatures on the grid never exceeds the
\* live-creature cap.
C3_GridWithinCap == Cardinality(OccupiedCells) <= SpawnCap

\* C4 (as claimed): a creature instance appears in at most one cell.
C4_InstanceInOneCell ==
    \A c1, c2 \in Cells : (grid[c1] # Nil /\ c1 # c2) => grid[c1] # grid[c2]

\* C5 (as claimed): outside the grid guard, the despawn schedule has an
\* entry for a creature exactly when that creature is on the grid.
C5_ScheduleIffOnGrid ==
    pwLock = Nil =>
        \A k \in Pokedex :
            (despawnTimers[k] # NoTimer) <=> (\E c \in Cells : grid[c] = k)

\* C6 (as claimed): a move in any of the four directions changes one
\* coordinate by one cell with wraparound, (old +- 1 + size) mod size.
C6_MoveWraps ==
    [][\A p \in Clients, input \in Directions :
          (Command(p, input) /\ pc'[p] = "L813") =>
              /\ X'[p] = (CASE input = "left"  -> (X[p] - 1 + worldSizeX) % worldSizeX
                            [] input = "right" -> (X[p] + 1) % worldSizeX
                            [] OTHER -> X[p])
              /\ Y'[p] = (CASE input = "up"   -> (Y[p] - 1 + worldSizeY) % worldSizeY
                            [] input = "down" -> (Y[p] + 1) % worldSizeY
                            [] OTHER -> Y[p])]_vars

\* C7 (as claimed): a command that ends, with spare capacity, on a cell
\* holding a creature captures it in the same step: the cell is empty, the
\* creature's schedule entry is gone, TotalPokemon is one less and the
\* creature is the last element of the client's team.
C7_CaptureAtomic ==
    [][\A p \in Clients, input \in Inputs :
          EndsOnCreature(p, input) =>
              LET c == <<X'[p], Y'[p]>> IN
              /\ grid'[c] = Nil
              /\ despawnTimers'[grid[c]] = NoTimer
              /\ TotalPokemon' = TotalPokemon - 1
              /\ team'[p] = Append(team[p], grid[c])]_vars

\* C9: a spawn attempt on an occupied cell changes nothing (grid, Level,
\* timers, despawn schedule, counter), and on a grid with no empty cell a
\* whole call spawnPokemon(numPokemon) changes nothing, whatever it draws.
C9_OccupiedCellSkipped ==
    /\ \A pick \in Picks :
          grid[<<pick.x, pick.y>>] # Nil => SpawnIter(World, pick) = World
    /\ (OccupiedCells = Cells) =>
          \A picks \in [1..numPokemon -> Picks] : SpawnLoop(World, picks, 1) = World

\* C9 witness: a call of spawnPokemon on a full grid has run, every attempt
\* of it finding its cell occupied.
C9_Witness == OccupiedCells = Cells /\ skipped = numPokemon

\* C10 (as claimed): a move onto a cell occupied by another player is not
\* rejected: the mover's position becomes the destination.
C10_MoveOntoPlayer ==
    (moved.id # Nil /\ moved.direction \in Directions
        /\ moved.found # Nil /\ moved.found # moved.id)
    => /\ PX[moved.id] = NewX(moved.fromX, moved.direction)
       /\ PY[moved.id] = NewY(moved.fromY, moved.direction)

\* C11 (as claimed): a command that ends, with spare capacity, on a cell
\* holding a creature and another registered client captures the creature
\* first and goes on to the battle check second: after it the cell is
\* empty, the creature is the last element of the client's team, and the
\* goroutine is past the capture, not waiting before it.
C11_CaptureThenBattle ==
    [][\A p \in Clients, input \in Inputs :
          (/\ EndsOnCreature(p, input)
           /\ \E q \in players \ {p} : X[q] = X'[p] /\ Y[q] = Y'[p])
          => LET c == <<X'[p], Y'[p]>> IN
             /\ grid'[c] = Nil
             /\ team'[p] = Append(team[p], grid[c])
             /\ pc'[p] # "L813"]_vars

\* C12 (as claimed): a line that is none of the four directions is a
\* no-op and no error: position, team, grid, despawn schedule and counter
\* are unchanged, and the client is back at its prompt holding no mutex.
C12_UnknownTokenNoOp ==
    [][\A p \in Clients, input \in Inputs \ Directions :
          (Command(p, input) /\ pwLock = Nil)
          => /\ UNCHANGED <<X, Y, team, grid, despawnTimers, TotalPokemon>>
             /\ pc'[p] = "L772"
             /\ pwLock' = Nil
             /\ clientLock'[p] = Nil]_vars

\* The other player of a battle.
Other(p) == CHOOSE q \in Clients : q # p

Max(a, b) == IF a >= b THEN a ELSE b

\* The first attack has not been made yet.
NoAttackYet == hit.by = Nil

\* C13: after main's election and before the first attack exactly one
\* player is active, and it is the one whose lead creature has the strictly
\* higher Speed when the two Speeds differ (on a tie it is either).
C13_FirstTurnElection ==
    (elected /\ ~fatal /\ NoAttackYet) =>
        LET player1Speed == pokedex[team[1][1]].Speed
            player2Speed == pokedex[team[2][1]].Speed
        IN  /\ Cardinality({p \in Clients : isActive[p]}) = 1
            /\ player1Speed > player2Speed => isActive[1]
            /\ player2Speed > player1Speed => isActive[2]

\* C13 witness: Speed 50 against Speed 80, the Speed-80 side elected.
C13_Witness ==
    /\ elected /\ ~fatal /\ NoAttackYet
    /\ pokedex[team[1][1]].Speed = 50
    /\ pokedex[team[2][1]].Speed = 80
    /\ isActive[2] /\ ~isActive[1]

\* What calculateNormalDamage returns for every pair of entries, whatever
\* the attacker's types.
NormalDamageOfEveryPair ==
    \A a, d \in Species :
        /\ calculateNormalDamage(a, d) = Max(0, a.Attack - d.Defense)
        /\ \A t \in Species :
              calculateNormalDamage([a EXCEPT !.Type = t.Type], d)
                  = calculateNormalDamage(a, d)

\* C14: calculateNormalDamage is max(0, Attack - Defense) for every pair of
\* entries, types playing no part; the damage of the latest normal attack is
\* that value, never negative; and Attack 60 on Defense 40 with HP 20 left
\* deals 20, leaves HP 0 and the defender faints.
C14_NormalDamage ==
    /\ NormalDamageOfEveryPair
    /\ hit.choice = 1 =>
          /\ hit.damage >= 0
          /\ hit.damage = Max(0, pokedex[hit.attacker].Attack
                                   - pokedex[hit.defender].Defense)
          /\ (/\ pokedex[hit.attacker].Attack = 60
              /\ pokedex[hit.defender].Defense = 40
              /\ hit.hpBefore = 20)
             => (hit.damage = 20 /\ HP[hit.defender] = 0 /\ hit.fainted)

\* C14 witness: a normal attack of Attack 60 on Defense 40 with HP 20 left
\* has been made, and the defender fainted at HP 0.
C14_Witness ==
    /\ hit.choice = 1
    /\ pokedex[hit.attacker].Attack = 60
    /\ pokedex[hit.defender].Defense = 40
    /\ hit.hpBefore = 20
    /\ HP[hit.defender] = 0
    /\ hit.fainted

\* The greatest table multiplier over the pairs of an attacker's and a
\* defender's types, an absent pair counting 1.0.
TableMax(attacker, defender) ==
    LET ms == {calculateTypeEffectiveness(attacker.Type[i], defender.Type[j]) :
                  i \in DOMAIN attacker.Type, j \in DOMAIN defender.Type}
    IN  CHOOSE m \in ms : \A n \in ms : n <= m

\* C15 (as claimed): the multiplier the latest special attack used is the
\* greatest table multiplier over all (attacker type, defender type) pairs,
\* so 0.5 when every pair is in the table with 0.5.
C15_MaxOverPairs ==
    hit.choice = 2 =>
        maxMultiplier(Entry(hit.attacker), Entry(hit.defender))
            = TableMax(Entry(hit.attacker), Entry(hit.defender))

\* A number of halves rounded to the nearest integer, a half away from zero.
Round(h) == IF h >= 0 THEN (h + 1) \div 2 ELSE -((1 - h) \div 2)

\* C16 (as claimed): the damage of the latest special attack is
\* max(0, round(SpecialAttack * m - SpecialDefense)) for the effectiveness
\* multiplier m of the two creatures.
C16_SpecialDamageRounded ==
    hit.choice = 2 =>
        hit.damage = Max(0, Round(pokedex[hit.attacker].SpecialAttack
                                      * TableMax(Entry(hit.attacker), Entry(hit.defender))
                                  - 2 * pokedex[hit.defender].SpecialDefense))

\* The (attacking, defending) pairs the chart has an entry for.
ChartPairs == {pr \in TypeNames \X TypeNames :
                  pr[1] \in DOMAIN typeChart /\ pr[2] \in DOMAIN typeChart[pr[1]]}

\* What calculateTypeEffectiveness returns for every pair of type names.
EffectivenessOfEveryPair ==
    /\ \A a, d \in TypeNames :
          /\ <<a, d>> \in ChartPairs =>
                calculateTypeEffectiveness(a, d) = typeChart[a][d]
          /\ <<a, d>> \notin ChartPairs => calculateTypeEffectiveness(a, d) = 2
    /\ calculateTypeEffectiveness("Fire", "Grass") = 4
    /\ calculateTypeEffectiveness("Normal", "Ghost") = 0
    /\ calculateTypeEffectiveness("Normal", "Water") = 2
    /\ calculateTypeEffectiveness("Shadow", "Water") = 2

\* C17: calculateTypeEffectiveness returns the entry of a pair the chart
\* has (2.0 for Fire on Grass, 0.0 for Normal on Ghost) and 1.0 for every
\* other pair, whether the row lacks the defending type (Normal on Water)
\* or the chart lacks the row; a special attack between single-typed
\* creatures of an absent pair deals max(0, SpecialAttack - SpecialDefense).
C17_TypeEffectivenessDefault ==
    /\ EffectivenessOfEveryPair
    /\ (/\ hit.choice = 2
        /\ Len(pokedex[hit.attacker].Type) = 1
        /\ Len(pokedex[hit.defender].Type) = 1
        /\ <<pokedex[hit.attacker].Type[1], pokedex[hit.defender].Type[1]>>
               \notin ChartPairs)
       => hit.damage = Max(0, pokedex[hit.attacker].SpecialAttack
                                - pokedex[hit.defender].SpecialDefense)

\* C17 witness: a special attack of a Normal creature on a Water one.
C17_Witness ==
    /\ hit.choice = 2
    /\ pokedex[hit.attacker].Type = <<"Normal">>
    /\ pokedex[hit.defender].Type = <<"Water">>

\* C18 (as claimed): the HP of every creature is never negative.
C18_HPNeverNegative == \A k \in Pokedex : HP[k] >= 0

\* C19: an attack that leaves the defender's HP at 0 or less removes the
\* lead of the defending team and nothing else: the rest keeps its order
\* and the attacker's team is unchanged.
C19_FaintRemovesLead ==
    [][\A p \in Clients, attackChoice \in 1..2 :
          (/\ Turn(p, attackChoice)
           /\ hit' # hit
           /\ HP'[team[Other(p)][1]] <= 0)
          => /\ team'[Other(p)] = Tail(team[Other(p)])
             /\ team'[p] = team[p]]_vars

\* C19 witness: the latest attack made the defender faint, and the
\* defending team is left with two different creatures.
C19_Witness ==
    /\ hit.fainted
    /\ Len(team[Other(hit.by)]) = 2
    /\ team[Other(hit.by)][1] # team[Other(hit.by)][2]
    /\ Len(team[hit.by]) = TeamSize

\* A faint has emptied the team of player p.
Defeated(p) == elected /\ ~fatal /\ Len(team[p]) = 0

\* C20: once a faint has emptied a team the battle is over with the other
\* player as winner: the winner has left its turn loop still holding the
\* turn, the loser does not hold it, and no step changes an HP, a team, the
\* latest attack or the turn.
C20_BattleResolves ==
    /\ [](\A p \in Clients : Defeated(p) =>
            /\ hit.fainted /\ hit.by = Other(p)
            /\ pc[Other(p)] = "returned"
            /\ isActive[Other(p)] /\ ~isActive[p]
            /\ Len(team[Other(p)]) > 0)
    /\ [][(\E p \in Clients : Defeated(p)) => UNCHANGED <<HP, team, isActive, hit>>]_vars

\* C20 witness: a team has been emptied by the latest attack.
C20_Witness == \E p \in Clients : Defeated(p) /\ hit.fainted /\ HP[hit.defender] <= 0

\* An attack of player p is carried out in this step.
Attacks(p) ==
    /\ \E attackChoice \in 1..2 : Turn(p, attackChoice)
    /\ Len(team[Other(p)]) > 0

\* C21: after an attack that does not end the battle the turn is with the
\* defending side and not with the attacker: a surviving defender stays the
\* lead of its team, a fainted one is followed by the next creature of its
\* team; and the attacker is not the player who made the attack before.
C21_TurnToDefender ==
    [][\A p \in Clients :
          (Attacks(p) /\ pc'[p] = "loop")
          => /\ isActive'[Other(p)] /\ ~isActive'[p]
             /\ hit.by # p
             /\ IF HP'[team[Other(p)][1]] > 0
                THEN team'[Other(p)] = team[Other(p)]
                ELSE team'[Other(p)][1] = team[Other(p)][2]]_vars

\* C21 witness: the latest attack made the defender faint with creatures
\* left, the attack before it was the other player's, and the turn is with
\* the defending side.
C21_Witness ==
    /\ hit.fainted
    /\ hit.hpBefore < pokedex[hit.defender].HP
    /\ Len(team[Other(hit.by)]) > 0
    /\ isActive[Other(hit.by)] /\ ~isActive[hit.by]

\* A command of client p that leaves it on a cell without a creature where
\* another registered client stands, a side of the meeting having no
\* creature.
MeetsWithoutCreatures(p, input) ==
    /\ Command(p, input)
    /\ pwLock = Nil
    /\ grid[<<X'[p], Y'[p]>>] = Nil
    /\ \E q \in players \ {p} :
          /\ X[q] = X'[p] /\ Y[q] = Y'[p]
          /\ Len(team[p]) = 0 \/ Len(team[q]) = 0

\* C22 (as claimed): a battle between sides of which one has no creature
\* is aborted at once and the worker goes on: no team changes, and the
\* client is back at its prompt, its command done with.
C22_NoCombatantsAbort ==
    [][\A p \in Clients, input \in Inputs :
          MeetsWithoutCreatures(p, input)
          => /\ team' = team
             /\ pc'[p] = "L772"
             /\ clientLock'[p] = Nil]_vars

\* C23: a team choice that is no number of 1..NumPokedex and an attack
\* choice that is not 1 or 2 leave the player at the same prompt and change
\* no team (so no number of picks made), no HP, no turn owner, nor done or
\* the latest attack.
C23_InvalidSelectionReprompts ==
    [][\A p \in Clients :
          (\/ \E choice \in {0, NumPokedex + 1} : DraftPick(p, choice)
           \/ \E attackChoice \in {0, 3} : Turn(p, attackChoice))
          => UNCHANGED <<team, HP, isActive, pc, done, elected, hit>>]_vars

\* C23 witness: in a battle under way the latest line of the turn owner,
\* read from a live connection, was refused at the attack prompt.
C23_Witness ==
    /\ rejected.by # Nil
    /\ rejected.prompt = "attack"
    /\ isActive[rejected.by]
    /\ ~NoAttackYet
    /\ rejected.by \notin dropped

\* C24 (as claimed): the line "auto 5", an auto command with a positive
\* duration, toggles the client's auto-roam: off becomes on, on becomes off.
C24_AutoToggles ==
    [][\A p \in Clients :
          (Command(p, "auto 5") /\ pwLock = Nil)
          => AutoMode'[p] = ~AutoMode[p]]_vars

\* C27 (as claimed): a client whose connection is closed is no longer in
\* the set of registered players, where the collision check of another
\* client's command would find it.
C27_DisconnectRemoves == \A p \in Clients : pc[p] = "closed" => p \notin players

\* C28 (as claimed): when the connection of the turn owner has dropped, its
\* goroutine eventually is out of the turn loop or without the turn.
C28_DroppedOwnerLetsGo ==
    \A p \in Clients :
        (p \in dropped) ~> (pc[p] # "loop" \/ ~isActive[p])

\* The places a goroutine of handlePlayer waits at: for a line from its
\* connection (L772) or for a mutex (L765, L780, L813).
Waiting == {"L772", "L765", "L780", "L813"}

\* C29 (as claimed): no goroutine of handlePlayer holds pw's mutex, which
\* spawn and despawn need, while it waits for its connection or for another
\* mutex.
C29_GridGuardNotHeldWaiting ==
    \A p \in Clients : pc[p] \in Waiting => pwLock # p

\* C30 (as claimed): no goroutine waits for a mutex it holds itself, and
\* none is left holding its client's mutex with its command over.
C30_NoLockHeldTwice ==
    \A p \in Clients : clientLock[p] = p => pc[p] \notin {"L813", "L772", "closed"}

\* C31 (as claimed): no pokedex entry is ever changed after load: every
\* entry keeps the Level and the HP it was loaded with, whatever is spawned,
\* drafted or hit.
C31_TemplatesNeverMutated ==
    \A k \in Pokedex : Level[k] = 1 /\ HP[k] = pokedex[k].HP

\* C32: no player is active before main's election; when the election has
\* been made and until the first attack both teams hold exactly TeamSize
\* creatures, each a valid 1-based index of the pokedex, and no goroutine is
\* still drafting; and an attack is only made after the election, by the
\* player who is active.
C32_ElectionAfterDraft ==
    /\ []((\E q \in Clients : isActive[q]) => elected)
    /\ [](elected => \A p \in Clients : pc[p] \in {"loop", "returned"})
    /\ []((elected /\ NoAttackYet) =>
            \A p \in Clients :
                /\ Len(team[p]) = TeamSize
                /\ \A i \in 1..TeamSize : team[p][i] \in Pokedex)
    /\ [][hit' # hit => (elected /\ ~fatal /\ isActive[hit'.by])]_vars

\* C32 witness: the election has made a player active, no attack has been
\* made yet, and both teams hold three creatures.
C32_Witness ==
    /\ elected /\ ~fatal /\ NoAttackYet
    /\ \E q \in Clients : isActive[q]
    /\ \A p \in Clients : Len(team[p]) = TeamSize /\ pc[p] = "loop"

\* C33 (as claimed): the writes of the clients map exclude each other, as
\* writes made under a guard do: no two goroutines are inside the write at
\* once, and the runtime never stops the process for concurrent map writes.
C33_WritesUnderGuard ==
    /\ Cardinality({p \in Clients : pc[p] = "L459"}) <= 1
    /\ ~fatal

\* Where handlePlayerMovement puts a player standing on the grid, for every
\* line it may be called with.
PositionsOfEveryMove ==
    \A x \in 0..(worldSize - 1), direction \in Inputs :
        /\ NewX(x, direction) \in 0..(worldSize - 1)
        /\ NewY(x, direction) \in 0..(worldSize - 1)

\* C34: the position of every client is on the grid, 0 <= X < worldSizeX
\* and 0 <= Y < worldSizeY, from its creation on and after every command;
\* and handlePlayerMovement leaves a player who is on the grid on the grid.
C34_PositionInRange ==
    /\ PositionsOfEveryMove
    /\ \A p \in Clients :
          /\ X[p] \in 0..(worldSizeX - 1)
          /\ Y[p] \in 0..(worldSizeY - 1)

\* C34 witness: a client whose command has gone through the switch stands
\* in the corner of the least X and the greatest Y.
C34_Witness ==
    \E p \in Clients : pc[p] = "L813" /\ X[p] = 0 /\ Y[p] = worldSizeY - 1

\* C35 (as claimed): while pw's mutex is free TotalPokemon is the number of
\* occupied cells of the grid, and it is not negative.
C35_CounterIsOccupiedCells ==
    pwLock = Nil =>
        /\ TotalPokemon = Cardinality(OccupiedCells)
        /\ TotalPokemon >= 0

\* C36: at most one of the two clients is active at any time.
C36_OneTurnOwner == Cardinality({p \in Clients : isActive[p]}) <= 1

\* C36 witness: an attack that left the defender standing has been made,
\* and the turn has passed from the attacker to the defender.
C36_Witness ==
    /\ ~NoAttackYet
    /\ ~hit.fainted
    /\ isActive[Other(hit.by)]
    /\ ~isActive[hit.by]
    /\ \A p \in Clients : pc[p] = "loop"

\* C37 (as claimed): an attack changes nothing of the attacking side: the
\* attacker's team is the same and every creature of it has the HP it had.
C37_TurnChangesDefenderOnly ==
    [][\A p \in Clients :
          Attacks(p)
          => /\ team'[p] = team[p]
             /\ \A i \in 1..Len(team[p]) :
                   HP'[team[p][i]] = HP[team[p][i]]]_vars

\* C38 (as claimed): while neither team is empty every creature of a team
\* has an HP above 0.
C38_NoFaintedInTeam ==
    (elected /\ ~fatal /\ \A p \in Clients : Len(team[p]) > 0)
    => \A p \in Clients : \A i \in 1..Len(team[p]) : HP[team[p][i]] > 0

\* C39 (as claimed): once a team has been emptied both goroutines of
\* handleConnection eventually are out of the turn loop.
C39_WorkersLeaveLoop ==
    (\E p \in Clients : Defeated(p)) ~> (\A p \in Clients : pc[p] # "loop")

=============================================================================
